---- MODULE Spec2Model ----
(***************************************************************************)
(* A model of the learning-path generator's core (src/utils.py and the     *)
(* Generate handler of src/app.py):                                        *)
(*   - the Progress Store and the History Log, JSON files under DATA_DIR,  *)
(*     with the storage failures the operating system can produce;         *)
(*   - the text pipeline, sanitize_learning_path_text and                  *)
(*     extract_days_and_questions, as operators over token sequences.      *)
(***************************************************************************)
EXTENDS Integers, Sequences, FiniteSets, TLC

VARIABLES
    dirExists,      \* os.path.isdir(DATA_DIR)
    hashOf,         \* the running process's hash() on goal strings
    progressFiles,  \* DATA_DIR/progress_<hash>.json, by hash value
    historyFile,    \* DATA_DIR/history.json
    trace,          \* the client's most recent calls, oldest first
    doc,            \* the text handed to the text pipeline
    plan,           \* the plan doc was written from, if any
    runs,           \* sanitize_learning_path_text's outputs, applied in turn
    items,          \* what extract_days_and_questions returned
    pc,             \* "store", or the text pipeline's position
    writers,        \* the sessions inside save_history_record, by session
    session         \* st.session_state and the Generate handler's position

storeVars == <<dirExists, hashOf, progressFiles, historyFile, trace>>
textVars == <<doc, plan, runs, items, pc>>
appVars == <<writers, session>>
vars == <<dirExists, hashOf, progressFiles, historyFile, trace,
          doc, plan, runs, items, pc, writers, session>>

----------------------------------------------------------------------------
(* Values.                                                                 *)

\* Goal strings the user enters.
Goals == {"learn python", "learn go"}

\* Values hash() can take on a goal string (64-bit in the runtime).
HashVals == {11, 12}

\* day_<idx> keys of a progress record (app.py: day_key = f"day_{idx}").
DayKeys == {"day_1"}

\* One entry of a progress record.
ProgressEntries == [completed : BOOLEAN, title : {"Day 1:"}, topic : {"X"}]

\* ProgressRecord: a mapping from some day keys to entries.
ProgressRecords == UNION {[D -> ProgressEntries] : D \in SUBSET DayKeys}

\* The empty mapping {} that load_progress returns by default.
EmptyRecord == CHOOSE r \in ProgressRecords : DOMAIN r = {}

\* History records (opaque here: goal, tool, flags and content).
HistoryRecords == {"a", "b"}

\* The longest history log the model lets the client build.
MaxHistory == 3

\* A file is absent, holds JSON text, or holds bytes that are not JSON.
Absent == [kind |-> "absent"]
Corrupt == [kind |-> "corrupt"]

\* json.dump(v, f): the file's text; json.load gives v back.
JsonDump(v) == [kind |-> "json", val |-> v]

\* json.load(f) on a file's content: the value, or an exception.
JsonLoad(c) ==
    IF c.kind = "json" THEN [raised |-> FALSE, val |-> c.val]
    ELSE [raised |-> TRUE]

\* What the operating system can make fail during one call: creating
\* DATA_DIR, reading a file, opening it for writing, writing to it.
Faults == {"makedirs", "read", "open_w", "dump"}

\* The failures injected into one call: none, or one of those it can meet.
FaultChoices(S) == {{}} \cup {{x} : x \in S \cap Faults}

NoValue == [kind |-> "none"]
Value(v) == [kind |-> "value", val |-> v]

----------------------------------------------------------------------------
(* The storage functions: each maps the state it reads and the faults the  *)
(* environment injects to its outcome and the state it leaves.             *)

\* _ensure_data_dir(): creates DATA_DIR when missing; makedirs may raise.
ensure_data_dir(dir, f) ==
    IF dir THEN [raised |-> FALSE, dir |-> TRUE, faults |-> {}]
    ELSE IF "makedirs" \in f
         THEN [raised |-> TRUE, dir |-> FALSE, faults |-> {"makedirs"}]
         ELSE [raised |-> FALSE, dir |-> TRUE, faults |-> {}]

\* save_progress's try block: open(progress_file, "w"), json.dump; every
\* Exception is swallowed. A failed open leaves the file as it was, a failed
\* dump leaves it truncated.
write_progress(file, progress, f) ==
    IF "open_w" \in f
    THEN [raised |-> FALSE, file |-> file, faults |-> {"open_w"}]
    ELSE IF "dump" \in f
         THEN [raised |-> FALSE, file |-> Corrupt, faults |-> {"dump"}]
         ELSE [raised |-> FALSE, file |-> JsonDump(progress), faults |-> {}]

\* load_progress after the directory check: {} when the file is absent,
\* unreadable or not JSON.
read_progress(file, f) ==
    IF file.kind = "absent" THEN [ret |-> EmptyRecord, faults |-> {}]
    ELSE IF "read" \in f THEN [ret |-> EmptyRecord, faults |-> {"read"}]
    ELSE IF JsonLoad(file).raised THEN [ret |-> EmptyRecord, faults |-> {"corrupt"}]
    ELSE [ret |-> JsonLoad(file).val, faults |-> {}]

\* load_progress(user_goal) in a process whose hash() is h.
load_progress(dir, files, h, user_goal, f) ==
    LET d == ensure_data_dir(dir, f)
        r == read_progress(files[h[user_goal]], f)
    IN  IF d.raised
        THEN [raised |-> TRUE, ret |-> NoValue, dir |-> d.dir, faults |-> d.faults]
        ELSE [raised |-> FALSE, ret |-> Value(r.ret), dir |-> d.dir,
              faults |-> r.faults]

\* save_progress(user_goal, progress) in a process whose hash() is h.
save_progress(dir, files, h, user_goal, progress, f) ==
    LET d == ensure_data_dir(dir, f)
        k == h[user_goal]
        w == write_progress(files[k], progress, f)
    IN  IF d.raised
        THEN [raised |-> TRUE, dir |-> d.dir, files |-> files, faults |-> d.faults]
        ELSE [raised |-> w.raised, dir |-> d.dir,
              files |-> [files EXCEPT ![k] = w.file], faults |-> w.faults]

\* load_history(): [] when the file is absent, unreadable or not JSON.
load_history(dir, file, f) ==
    LET d == ensure_data_dir(dir, f)
    IN  IF d.raised
        THEN [raised |-> TRUE, ret |-> NoValue, dir |-> d.dir, faults |-> d.faults]
        ELSE IF file.kind = "absent"
        THEN [raised |-> FALSE, ret |-> Value(<<>>), dir |-> d.dir, faults |-> {}]
        ELSE IF "read" \in f
        THEN [raised |-> FALSE, ret |-> Value(<<>>), dir |-> d.dir,
              faults |-> {"read"}]
        ELSE IF JsonLoad(file).raised
        THEN [raised |-> FALSE, ret |-> Value(<<>>), dir |-> d.dir,
              faults |-> {"corrupt"}]
        ELSE [raised |-> FALSE, ret |-> Value(JsonLoad(file).val), dir |-> d.dir,
              faults |-> {}]

\* The write of save_history_record wrapped in save_progress's
\* try/except-pass (a plausible slip).
write_history_swallowing(file, history, f) ==
    IF "open_w" \in f
    THEN [raised |-> FALSE, file |-> file, faults |-> {"open_w"}]
    ELSE IF "dump" \in f
         THEN [raised |-> FALSE, file |-> Corrupt, faults |-> {"dump"}]
         ELSE [raised |-> FALSE, file |-> JsonDump(history), faults |-> {}]

\* save_history_record's write: open(HISTORY_PATH, "w"), json.dump, outside
\* any try block.
write_history(file, history, f) ==
    IF "open_w" \in f
    THEN [raised |-> TRUE, file |-> file, faults |-> {"open_w"}]
    ELSE IF "dump" \in f
         THEN [raised |-> TRUE, file |-> Corrupt, faults |-> {"dump"}]
         ELSE [raised |-> FALSE, file |-> JsonDump(history), faults |-> {}]

\* history.append(record) placing the record first (a plausible slip).
append_front(history, record) == <<record>> \o history

\* history.append(record).
append(history, record) == Append(history, record)

\* save_history_record(record): load the whole log, append, write it back.
save_history_record(dir, file, record, f) ==
    LET d == ensure_data_dir(dir, f)
        l == load_history(d.dir, file, f)
        w == write_history(file, append(l.ret.val, record), f)
    IN  IF d.raised
        THEN [raised |-> TRUE, dir |-> d.dir, file |-> file, faults |-> d.faults]
        ELSE [raised |-> w.raised, dir |-> d.dir, file |-> w.file,
              faults |-> l.faults \cup w.faults]

----------------------------------------------------------------------------
(* Sessions. Each browser session runs app.py in a thread of its own; the  *)
(* files under DATA_DIR are shared by all of them.                         *)

\* The sessions that may be inside save_history_record at the same time.
Sessions == {"s1", "s2"}

\* A session outside save_history_record.
IdleWriter ==
    [pc |-> "idle", record |-> NoValue, history |-> <<>>, before |-> <<>>,
     overlap |-> FALSE, faults |-> {}]

IdleWriters == [w \in Sessions |-> IdleWriter]

\* st.session_state as lines 10-17 of app.py leave it, the handler's local
\* variables unset and the script waiting for a click; before, outcome,
\* faults and toggled keep what the run met, for the claims.
IdleSession ==
    [pc |-> "idle", is_generating |-> FALSE, current_step |-> "",
     progress |-> 0, last_section |-> "", user_goal |-> "", tool |-> "",
     step |-> 0, progress_data |-> EmptyRecord, idx |-> 0, before |-> NoValue,
     outcome |-> "", faults |-> {}, toggled |-> {}]

----------------------------------------------------------------------------
(* The client: one process calling the storage functions, restarted at     *)
(* will.                                                                   *)

\* The entry the client's trace keeps of one call: what was called, how it
\* ended, what it returned, which failures it met, and (for a save to the
\* history log) what the log held before.
Call(op, goal, arg, res, ret, before) ==
    [op |-> op, goal |-> goal, arg |-> arg,
     outcome |-> IF res.raised THEN "raised" ELSE "returned",
     faults |-> res.faults, ret |-> ret, before |-> before]

\* The trace keeps the last w calls.
Push(tr, e, w) == IF Len(tr) < w THEN Append(tr, e) ELSE Append(Tail(tr), e)

InitStore ==
    /\ dirExists = FALSE
    /\ hashOf \in [Goals -> HashVals]
    /\ progressFiles = [k \in HashVals |-> Absent]
    /\ historyFile = Absent
    /\ trace = <<>>
    /\ doc = <<>>
    /\ plan = <<>>
    /\ runs = <<>>
    /\ items = <<>>
    /\ pc = "store"
    /\ writers = IdleWriters
    /\ session = IdleSession

LoadProgress ==
    \E g \in Goals, f \in FaultChoices({"makedirs", "read"}) :
        LET res == load_progress(dirExists, progressFiles, hashOf, g, f)
        IN  /\ dirExists' = res.dir
            /\ trace' = Push(trace,
                   Call("load_progress", g, NoValue, res, res.ret, NoValue), 2)
            /\ UNCHANGED <<hashOf, progressFiles, historyFile, textVars, appVars>>

SaveProgress ==
    \E g \in Goals, p \in ProgressRecords,
       f \in FaultChoices({"makedirs", "open_w", "dump"}) :
        LET res == save_progress(dirExists, progressFiles, hashOf, g, p, f)
        IN  /\ dirExists' = res.dir
            /\ progressFiles' = res.files
            /\ trace' = Push(trace,
                   Call("save_progress", g, Value(p), res, NoValue, NoValue), 2)
            /\ UNCHANGED <<hashOf, historyFile, textVars, appVars>>

\* A new process: hash() of a str is salted per process (PYTHONHASHSEED).
Restart ==
    /\ hashOf' \in [Goals -> HashVals]
    /\ UNCHANGED <<dirExists, progressFiles, historyFile, trace, textVars, appVars>>

\* What a load_history() that meets no failure would return now.
Stored(file) == IF file.kind = "json" THEN file.val ELSE <<>>

LoadHistory ==
    \E f \in FaultChoices({"makedirs", "read"}) :
        LET res == load_history(dirExists, historyFile, f)
        IN  /\ dirExists' = res.dir
            /\ trace' = Push(trace,
                   Call("load_history", "-", NoValue, res, res.ret, NoValue), 3)
            /\ UNCHANGED <<hashOf, progressFiles, historyFile, textVars, appVars>>

SaveHistoryRecord ==
    \E r \in HistoryRecords, f \in FaultChoices(Faults) :
        LET res == save_history_record(dirExists, historyFile, r, f)
        IN  /\ Len(Stored(historyFile)) < MaxHistory
            /\ dirExists' = res.dir
            /\ historyFile' = res.file
            /\ trace' = Push(trace,
                   Call("save_history_record", "-", Value(r), res, NoValue,
                        Value(Stored(historyFile))), 3)
            /\ UNCHANGED <<hashOf, progressFiles, textVars, appVars>>

\* The Progress Store, used by one process at a time and across restarts.
NextProgress ==
    \/ LoadProgress
    \/ SaveProgress
    \/ Restart

SpecProgress == InitStore /\ [][NextProgress]_vars

\* The History Log under a single writer.
NextHistory ==
    \/ LoadHistory
    \/ SaveHistoryRecord

SpecHistory == InitStore /\ [][NextHistory]_vars

----------------------------------------------------------------------------
(* Claims about the Progress Store and the History Log.                    *)

\* A call that ended normally and met no storage failure.
Clean(c, op) == c.op = op /\ c.outcome = "returned" /\ c.faults = {}

\* C1: save_progress(g, r) followed by load_progress(g), in the same process
\* or in a new one, returns r: the storage key derived from g is the same in
\* every process.
C1_RoundTripAcrossRestart ==
    (/\ Len(trace) = 2
     /\ Clean(trace[1], "save_progress")
     /\ Clean(trace[2], "load_progress")
     /\ trace[2].goal = trace[1].goal)
    => trace[2].ret = trace[1].arg

\* C2: with a single writer, after save_history_record(a) and then
\* save_history_record(b) have returned, load_history() returns the records
\* stored before, in their order, followed by a and then b.
C2_HistoryAppendOrder ==
    (/\ Len(trace) = 3
     /\ Clean(trace[1], "save_history_record")
     /\ Clean(trace[2], "save_history_record")
     /\ Clean(trace[3], "load_history"))
    => trace[3].ret.val
         = trace[1].before.val \o <<trace[1].arg.val, trace[2].arg.val>>

\* C2's case: a log that held a record gained two different ones and was read.
C2_Witness ==
    /\ Len(trace) = 3
    /\ Clean(trace[1], "save_history_record")
    /\ Clean(trace[2], "save_history_record")
    /\ Clean(trace[3], "load_history")
    /\ trace[1].before.val # <<>>
    /\ trace[1].arg # trace[2].arg
    /\ Len(trace[3].ret.val) = 3

IsPrefix(s, t) == Len(s) <= Len(t) /\ SubSeq(t, 1, Len(s)) = s

\* C3: the history log is append-only, also across calls that meet a storage
\* failure: every step keeps the records the log held, in their places, and
\* adds at most one record at its end.
C3_AppendOnly ==
    [][/\ IsPrefix(Stored(historyFile), Stored(historyFile'))
       /\ Len(Stored(historyFile')) <= Len(Stored(historyFile)) + 1]_vars

\* C4: the Progress Store never surfaces a storage error: whatever fails,
\* load_progress returns the empty mapping and save_progress returns normally.
C4_ProgressStoreNeverRaises ==
    \A i \in DOMAIN trace :
        trace[i].op \in {"load_progress", "save_progress"} =>
            /\ trace[i].outcome = "returned"
            /\ (trace[i].op = "load_progress" /\ trace[i].faults # {})
                   => trace[i].ret = Value(EmptyRecord)

\* C5: a failing write of the history file makes save_history_record raise,
\* where the same failure leaves save_progress returning normally.
C5_HistoryWriteFailureRaises ==
    \A i \in DOMAIN trace :
        (/\ trace[i].op = "save_history_record"
         /\ trace[i].faults \cap {"open_w", "dump"} # {})
        => /\ trace[i].outcome = "raised"
           /\ \A g \in Goals, p \in ProgressRecords :
                  ~save_progress(dirExists, progressFiles, hashOf, g, p,
                                 trace[i].faults).raised

\* C5's case: a dump that failed part-way left the file corrupt and the call
\* raised.
C5_Witness ==
    /\ trace # <<>>
    /\ trace[Len(trace)].op = "save_history_record"
    /\ trace[Len(trace)].faults = {"dump"}
    /\ trace[Len(trace)].outcome = "raised"
    /\ historyFile = Corrupt

----------------------------------------------------------------------------
(* Text. A str is a sequence of tokens, each a string: one character, or   *)
(* one of the literal words the code's patterns name ("Day", "Topic",      *)
(* "https://", "VIDEO_ID_HERE", ...), which the texts of this model hold    *)
(* only whole. Indices are 1-based; a position past the end reads "".      *)

\* \s of the re module.
Spaces == {" ", "\n", "\t"}

\* \d of the re module.
Digits == {"0", "1", "2", "3", "4", "5", "6", "7", "8", "9"}

\* re.IGNORECASE: the spelling of a word the patterns compare.
Fold(c) ==
    CASE c = "day" -> "Day"
      [] c = "topic" -> "Topic"
      [] c = "thought" -> "Thought"
      [] c = "error:" -> "Error:"
      [] OTHER -> c

Tok(t, i) == IF i \in 1..Len(t) THEN t[i] ELSE ""

Min(S) == CHOOSE x \in S : \A y \in S : x <= y
Max(S) == CHOOSE x \in S : \A y \in S : x >= y

\* The least member of a set of positions, 0 when there is none.
First(S) == IF S = {} THEN 0 ELSE Min(S)

\* The first position from i on whose token is not in S (a greedy S*).
RECURSIVE Skip(_, _, _)
Skip(t, i, S) == IF i <= Len(t) /\ t[i] \in S THEN Skip(t, i + 1, S) ELSE i

\* The last position up to i whose token is not in S.
RECURSIVE SkipBack(_, _, _)
SkipBack(t, i, S) == IF i >= 1 /\ t[i] \in S THEN SkipBack(t, i - 1, S) ELSE i

\* The first position from i on whose token is in S, Len(t) + 1 when none.
Find(t, i, S) ==
    LET J == {j \in i..Len(t) : t[j] \in S}
    IN  IF J = {} THEN Max({i, Len(t) + 1}) ELSE Min(J)

\* t[i:j] of Python, 1-based and inclusive.
Slice(t, i, j) == IF i > j THEN <<>> ELSE SubSeq(t, i, j)

\* str.strip(chars).
StripSet(t, S) == Slice(t, Skip(t, 1, S), SkipBack(t, Len(t), S))

\* str.strip().
Strip(t) == StripSet(t, Spaces)

\* str.splitlines(): a final line break opens no further line.
RECURSIVE SplitLinesFrom(_, _)
SplitLinesFrom(t, i) ==
    IF i > Len(t) THEN <<>>
    ELSE LET e == Find(t, i, {"\n"})
         IN  <<Slice(t, i, e - 1)>> \o SplitLinesFrom(t, e + 1)

SplitLines(t) == SplitLinesFrom(t, 1)

\* "\n".join(lines).
RECURSIVE JoinLines(_)
JoinLines(lines) ==
    IF lines = <<>> THEN <<>>
    ELSE IF Len(lines) = 1 THEN lines[1]
    ELSE lines[1] \o <<"\n">> \o JoinLines(Tail(lines))

\* The pattern Day\s+\d+\s*[:\-] (IGNORECASE) matched at i: the position
\* after the match, 0 when it does not match.
HeaderEnd(t, i) ==
    LET b == Skip(t, i + 1, Spaces)
        c == Skip(t, b, Digits)
        d == Skip(t, c, Spaces)
    IN  IF Fold(Tok(t, i)) = "Day" /\ b > i + 1 /\ c > b /\ Tok(t, d) \in {":", "-"}
        THEN d + 1 ELSE 0

----------------------------------------------------------------------------
(* sanitize_learning_path_text.                                            *)

\* The token of the backquote character.
Backquote == "<backquote>"

IsFence(t, i) ==
    Tok(t, i) = Backquote /\ Tok(t, i + 1) = Backquote /\ Tok(t, i + 2) = Backquote

\* re.sub(r"```[\s\S]*?```", "", text): each fence up to the next one.
\* The closing fence of the fence at i, 0 when there is none.
FenceClose(t, i) ==
    IF IsFence(t, i) THEN First({k \in (i + 3)..Len(t) : IsFence(t, k)}) ELSE 0

RECURSIVE RemoveFences(_, _)
RemoveFences(t, i) ==
    LET s == First({k \in i..Len(t) : FenceClose(t, k) # 0})
    IN  IF s = 0 THEN Slice(t, i, Len(t))
        ELSE Slice(t, i, s - 1) \o RemoveFences(t, FenceClose(t, s) + 3)

\* Error:\s*ToolException\([\s\S]*?\)\s* (IGNORECASE) matched at i: the
\* position after the match, 0 when it does not match.
ToolExceptionEnd(t, i) ==
    LET a == Skip(t, i + 1, Spaces)
        close == Find(t, a + 1, {")"})
    IN  IF Fold(Tok(t, i)) = "Error:" /\ Tok(t, a) = "ToolException("
           /\ close <= Len(t)
        THEN Skip(t, close + 1, Spaces) ELSE 0

\* re.sub(r"Error:\s*ToolException\([\s\S]*?\)\s*", "", text).
RECURSIVE RemoveToolExceptions(_, _)
RemoveToolExceptions(t, i) ==
    LET s == First({k \in i..Len(t) : ToolExceptionEnd(t, k) # 0})
    IN  IF s = 0 THEN Slice(t, i, Len(t))
        ELSE Slice(t, i, s - 1) \o RemoveToolExceptions(t, ToolExceptionEnd(t, s))

\* \{\s*"data"\s*:\s*\{[\s\S]*?\}\s*\}\s* matched at i: the position after
\* the match, 0 when it does not match.
DataJsonEnd(t, i) ==
    LET a == Skip(t, i + 1, Spaces)
        b == Skip(t, a + 1, Spaces)
        c == Skip(t, b + 1, Spaces)
        close == First({k \in (c + 1)..Len(t) :
                          t[k] = "}" /\ Tok(t, Skip(t, k + 1, Spaces)) = "}"})
    IN  IF Tok(t, i) = "{" /\ Tok(t, a) = "\"data\"" /\ Tok(t, b) = ":"
           /\ Tok(t, c) = "{" /\ close # 0
        THEN Skip(t, Skip(t, close + 1, Spaces) + 1, Spaces) ELSE 0

\* re.sub(r"\{\s*\"data\"\s*:\s*\{[\s\S]*?\}\s*\}\s*", "", text).
RECURSIVE RemoveDataJson(_, _)
RemoveDataJson(t, i) ==
    LET s == First({k \in i..Len(t) : DataJsonEnd(t, k) # 0})
    IN  IF s = 0 THEN Slice(t, i, Len(t))
        ELSE Slice(t, i, s - 1) \o RemoveDataJson(t, DataJsonEnd(t, s))

\* re.match(r"^(Thought|Action|Observation)\s*:?", s, IGNORECASE): the colon
\* is optional, so the keyword at the start of s is all that is asked.
IsTraceLine(s) == Fold(Tok(s, 1)) \in {"Thought", "Action", "Observation"}

\* s.startswith("{") and s.endswith("}").
IsBareJson(s) == Tok(s, 1) = "{" /\ Tok(s, Len(s)) = "}"

\* The loop over text.splitlines(): blank lines kept as "", trace lines and
\* bare JSON lines dropped, other lines kept as they are.
RECURSIVE FilterLines(_)
FilterLines(lines) ==
    IF lines = <<>> THEN <<>>
    ELSE LET ln == lines[1]
             s == Strip(ln)
             rest == FilterLines(Tail(lines))
         IN  IF s = <<>> THEN <<(<<>>)>> \o rest
             ELSE IF IsTraceLine(s) \/ IsBareJson(s) THEN rest
             ELSE <<ln>> \o rest

\* re.search(r"(^|\n)\s*Day\s+\d+\s*[:\-]", cleaned, IGNORECASE).start(), as
\* a 1-based position; 0 when there is no match.
FirstDayMarker(t) ==
    IF HeaderEnd(t, Skip(t, 1, Spaces)) # 0 THEN 1
    ELSE First({i \in 1..Len(t) :
                  t[i] = "\n" /\ HeaderEnd(t, Skip(t, i + 1, Spaces)) # 0})

\* head[-2:].
LastTwo(lines) ==
    IF Len(lines) <= 2 THEN lines ELSE SubSeq(lines, Len(lines) - 1, Len(lines))

\* The tail of sanitize_learning_path_text: keep from the first day marker
\* on, with up to two lines before it as a title.
KeepFromFirstDay(cleaned) ==
    LET start == FirstDayMarker(cleaned)
        head == SplitLines(Strip(Slice(cleaned, 1, start - 1)))
        title == JoinLines(LastTwo(head))
        body == Strip(Slice(cleaned, start, Len(cleaned)))
    IN  IF start = 0 THEN cleaned
        ELSE IF title # <<>> THEN Strip(title \o <<"\n", "\n">> \o body)
        ELSE body

sanitize_learning_path_text(text) ==
    IF text = <<>> THEN <<>>
    ELSE LET t1 == RemoveFences(text, 1)
             t2 == RemoveToolExceptions(t1, 1)
             t3 == RemoveDataJson(t2, 1)
             cleaned == Strip(JoinLines(FilterLines(SplitLines(t3))))
         IN  KeepFromFirstDay(cleaned)

----------------------------------------------------------------------------
(* extract_days_and_questions.                                             *)

\* questions[:10].
QuestionCap == 10

\* re.sub(r"\s+(Day\s+\d+\s*[:\-])", r"\n\1", text, IGNORECASE): the
\* white space before a day header becomes one line break.
RECURSIVE Canonicalize(_, _)
Canonicalize(t, i) ==
    LET s == First({k \in i..Len(t) :
                      t[k] \in Spaces /\ HeaderEnd(t, Skip(t, k, Spaces)) # 0})
        h == Skip(t, s, Spaces)
        e == HeaderEnd(t, h)
    IN  IF s = 0 THEN Slice(t, i, Len(t))
        ELSE Slice(t, i, s - 1) \o <<"\n">> \o Slice(t, h, e - 1)
                 \o Canonicalize(t, e)

\* The line breaks re.split(r"\n(?=\s*Day\s+\d+\s*[:\-])", canon) cuts at.
IsCut(t, i) == t[i] = "\n" /\ HeaderEnd(t, Skip(t, i + 1, Spaces)) # 0

\* re.split: the pieces between the cuts, from position i on.
RECURSIVE SplitDays(_, _)
SplitDays(t, i) ==
    LET cut == First({k \in i..Len(t) : IsCut(t, k)})
    IN  IF cut = 0 THEN <<Slice(t, i, Len(t))>>
        ELSE <<Slice(t, i, cut - 1)>> \o SplitDays(t, cut + 1)

\* re.search(r"Topic\s*:\s*([^\n]+)", s, IGNORECASE) tried at i: where
\* group 1 starts, 0 when the pattern does not match at i. \s* gives back
\* white space until a token other than a line break follows.
TopicGroupStart(t, i) ==
    LET c == Skip(t, i + 1, Spaces)
        p == Skip(t, c + 1, Spaces)
        ok == {q \in (c + 1)..p : q <= Len(t) /\ t[q] # "\n"}
    IN  IF Fold(Tok(t, i)) = "Topic" /\ Tok(t, c) = ":" /\ ok # {}
        THEN Max(ok) ELSE 0

\* topic_match.group(1).strip() if topic_match else "".
TopicOf(s) ==
    LET i == First({k \in 1..Len(s) : TopicGroupStart(s, k) # 0})
        g == TopicGroupStart(s, i)
    IN  IF i = 0 THEN <<>>
        ELSE Strip(Slice(s, g, Find(s, g, {"\n"}) - 1))

\* https?://\S+ matched at i: the position after the match, 0 when it does
\* not match.
UrlEnd(t, i) ==
    LET e == Find(t, i + 1, Spaces)
    IN  IF Tok(t, i) \in {"http://", "https://"} /\ e > i + 1 THEN e ELSE 0

\* any_url.group(0) if any_url else "".
FirstUrl(s) ==
    LET i == First({k \in 1..Len(s) : UrlEnd(s, k) # 0})
    IN  IF i = 0 THEN <<>> ELSE Slice(s, i, UrlEnd(s, i) - 1)

\* YouTube\s*Link(?:\s*\d+)?\s*:?\s*(https?://\S+) (IGNORECASE) tried at i:
\* where group 1 starts, 0 when the pattern does not match at i.
LabelledUrlStart(t, i) ==
    LET a == Skip(t, i + 1, Spaces)
        b == Skip(t, a + 1, Spaces)
        c == IF Skip(t, b, Digits) > b THEN Skip(t, Skip(t, b, Digits), Spaces)
             ELSE b
        d == IF Tok(t, c) = ":" THEN Skip(t, c + 1, Spaces) ELSE c
    IN  IF Tok(t, i) = "YouTube" /\ Tok(t, a) = "Link" /\ UrlEnd(t, d) # 0
        THEN d ELSE 0

\* The primary parser's link: the URL after the first "YouTube Link" label
\* that has one, else the first URL of the block, else "".
PrimaryLink(s) ==
    LET i == First({k \in 1..Len(s) : LabelledUrlStart(s, k) # 0})
        g == LabelledUrlStart(s, i)
    IN  IF i # 0 THEN Strip(Slice(s, g, UrlEnd(s, g) - 1)) ELSE FirstUrl(s)

\* urllib.parse.quote_plus on one token: letters, digits and _.-~ stay, a
\* blank becomes +, every other character its %XX.
QuoteToken(c) ==
    CASE c = " " -> <<"+">>
      [] c = "\t" -> <<"%09">>
      [] c = ":" -> <<"%3A">>
      [] c = "(" -> <<"%28">>
      [] c = ")" -> <<"%29">>
      [] c = "<backquote>" -> <<"%60">>
      [] c = "{" -> <<"%7B">>
      [] c = "}" -> <<"%7D">>
      [] c = "http://" -> <<"http", "%3A", "%2F", "%2F">>
      [] c = "https://" -> <<"https", "%3A", "%2F", "%2F">>
      [] c = "Error:" -> <<"Error", "%3A">>
      [] c = "error:" -> <<"error", "%3A">>
      [] c = "ToolException(" -> <<"ToolException", "%28">>
      [] c = "\"data\"" -> <<"%22", "data", "%22">>
      [] OTHER -> <<c>>

RECURSIVE quote_plus(_)
quote_plus(t) ==
    IF t = <<>> THEN <<>> ELSE QuoteToken(t[1]) \o quote_plus(Tail(t))

\* f"https://www.youtube.com/results?search_query={quote_plus(topic + ' tutorial')}"
SearchUrl(topic) ==
    <<"https://www.youtube.com/results?search_query=">>
        \o quote_plus(topic \o <<" ", "tutorial">>)

GenericUrl == <<"https://www.youtube.com/">>

\* "VIDEO_ID_HERE" in video_link.
HasPlaceholder(link) == \E k \in 1..Len(link) : link[k] = "VIDEO_ID_HERE"

\* The placeholder fix and the fallback to a search: a link holding the
\* placeholder and a missing link both become the topic's search URL, or
\* the platform's URL when there is no topic.
ResolveLink(link, topic) ==
    IF HasPlaceholder(link) \/ link = <<>>
    THEN IF topic # <<>> THEN SearchUrl(topic) ELSE GenericUrl
    ELSE link

\* Practice\s*Questions\s*\(\s*10\s*\)\s*:?\s*(.*)$ (IGNORECASE, DOTALL)
\* tried at i: where group 1 starts, 0 when the pattern does not match at i.
QuestionsStart(t, i) ==
    LET a == Skip(t, i + 1, Spaces)
        b == Skip(t, a + 1, Spaces)
        c == Skip(t, b + 1, Spaces)
        d == Skip(t, c + 2, Spaces)
        e == Skip(t, d + 1, Spaces)
        g == IF Tok(t, e) = ":" THEN Skip(t, e + 1, Spaces) ELSE e
    IN  IF Tok(t, i) = "Practice" /\ Tok(t, a) = "Questions" /\ Tok(t, b) = "("
           /\ Tok(t, c) = "1" /\ Tok(t, c + 1) = "0" /\ Tok(t, d) = ")"
        THEN g ELSE 0

\* line.strip(" -\t"), then re.sub(r"^\d+\.?\s*", "", line).
StripMarker(line) ==
    LET l == StripSet(line, {" ", "-", "\t"})
        d == Skip(l, 1, Digits)
        e == IF Tok(l, d) = "." THEN d + 1 ELSE d
    IN  IF d > 1 THEN Slice(l, Skip(l, e, Spaces), Len(l)) ELSE l

\* The loop over q_text.splitlines(): the stripped lines that are not empty.
RECURSIVE QuestionLines(_)
QuestionLines(lines) ==
    IF lines = <<>> THEN <<>>
    ELSE LET q == StripMarker(lines[1])
         IN  (IF q # <<>> THEN <<q>> ELSE <<>>) \o QuestionLines(Tail(lines))

\* questions[:10] without the cut (a plausible slip).
Uncapped(questions) == questions

\* questions[:10].
Capped(questions) ==
    IF Len(questions) <= QuestionCap THEN questions
    ELSE SubSeq(questions, 1, QuestionCap)

\* The questions of a block: the lines after the first
\* "Practice Questions (10)" label, at most ten of them.
QuestionsOf(s) ==
    LET i == First({k \in 1..Len(s) : QuestionsStart(s, k) # 0})
        q_text == Slice(s, QuestionsStart(s, i), Len(s))
    IN  IF i = 0 THEN <<>> ELSE Capped(QuestionLines(SplitLines(q_text)))

\* re.match(r"^(Day\s+\d+\s*[:\-]\s*)(.*)$", block): "." matches no line
\* break and "$" only the end, so there is a match only when nothing but one
\* line follows the header and its white space.
TitleMatches(block) ==
    LET r == Skip(block, HeaderEnd(block, 1), Spaces)
    IN  Find(block, r, {"\n"}) > Len(block)

\* day_title = title_match.group(1).strip() if title_match else "Day".
DayTitle(block) ==
    IF TitleMatches(block) THEN Strip(Slice(block, 1, HeaderEnd(block, 1) - 1))
    ELSE <<"Day">>

\* rest = title_match.group(2).strip() if title_match else block.
Rest(block) ==
    IF TitleMatches(block)
    THEN Strip(Slice(block, Skip(block, HeaderEnd(block, 1), Spaces), Len(block)))
    ELSE block

Item(day_title, topic, video_link, questions) ==
    [day_title |-> day_title, topic |-> topic, video_link |-> video_link,
     questions |-> questions]

\* The body of the primary loop for one block that starts with a header.
PrimaryItem(block) ==
    LET rest == Rest(block)
        topic == TopicOf(rest)
    IN  Item(DayTitle(block), topic, ResolveLink(PrimaryLink(rest), topic),
             QuestionsOf(rest))

\* The primary loop: blocks that are empty or start with no header are
\* skipped.
RECURSIVE PrimaryItems(_)
PrimaryItems(day_blocks) ==
    IF day_blocks = <<>> THEN <<>>
    ELSE LET block == Strip(day_blocks[1])
         IN  (IF block # <<>> /\ HeaderEnd(block, 1) # 0
              THEN <<PrimaryItem(block)>> ELSE <<>>)
             \o PrimaryItems(Tail(day_blocks))

\* The primary parser.
Primary(text) == PrimaryItems(SplitDays(Canonicalize(text, 1), 1))

\* Where a line starts: at the start of the text and after each line break.
IsLineStart(t, i) == i = 1 \/ t[i - 1] = "\n"

\* (?im)^\s*Day\s+\d+\s*[:\-]?.*$ tried at i: the position after the match,
\* 0 when it does not match. \s* after the number takes line breaks too.
FallbackHeaderEnd(t, i) ==
    LET a == Skip(t, i, Spaces)
        b == Skip(t, a + 1, Spaces)
        c == Skip(t, b, Digits)
        d == Skip(t, c, Spaces)
        e == IF Tok(t, d) \in {":", "-"} THEN d + 1 ELSE d
    IN  IF IsLineStart(t, i) /\ Fold(Tok(t, a)) = "Day" /\ b > a + 1 /\ c > b
        THEN Find(t, e, {"\n"}) ELSE 0

\* header_re.finditer(text): where the matches start, from position i on.
RECURSIVE HeaderStarts(_, _)
HeaderStarts(t, i) ==
    LET s == First({k \in i..Len(t) : FallbackHeaderEnd(t, k) # 0})
    IN  IF s = 0 THEN <<>>
        ELSE <<s>> \o HeaderStarts(t, FallbackHeaderEnd(t, s))

\* header_line.split("Topic:")[0]: the text before the first "Topic:".
BeforeTopicLabel(line) ==
    LET i == First({k \in 1..Len(line) : line[k] = "Topic" /\ Tok(line, k + 1) = ":"})
    IN  IF i = 0 THEN line ELSE Slice(line, 1, i - 1)

\* The body of the fallback loop for the block text[start:end].
FallbackItem(raw) ==
    LET block == Strip(raw)
        header_line == IF block # <<>> THEN SplitLines(block)[1] ELSE <<"Day">>
        day_title == Strip(BeforeTopicLabel(header_line))
        topic == TopicOf(block)
    IN  Item(IF day_title # <<>> THEN day_title ELSE <<"Day">>, topic,
             ResolveLink(FirstUrl(block), topic), QuestionsOf(block))

\* blocks: text[start:end] from each header match to the next.
FallbackBlocks(text) ==
    LET starts == HeaderStarts(text, 1)
    IN  [k \in 1..Len(starts) |->
            Slice(text, starts[k],
                  IF k < Len(starts) THEN starts[k + 1] - 1 ELSE Len(text))]

\* The fallback parser: one item per block.
Fallback(text) ==
    [k \in DOMAIN FallbackBlocks(text) |-> FallbackItem(FallbackBlocks(text)[k])]

\* An extractor that returns the items of both parsers.
extract_from_both(text) == Primary(text) \o Fallback(text)

extract_days_and_questions(text) ==
    IF text = <<>> THEN <<>>
    ELSE IF Primary(text) # <<>> THEN Primary(text)
    ELSE Fallback(text)

----------------------------------------------------------------------------
(* The texts the pipeline is run on. The upstream agent's output is free   *)
(* text; the model draws it from day plans written out in the layout the   *)
(* prompt asks for, and from short runs of text pieces.                    *)

\* The most day blocks in a written-out plan.
MaxBlocks == 2

\* The most numbered questions under one "Practice Questions (10)" label.
MaxQuestions == 11

\* The most pieces in a free text handed to the extractor.
MaxChunks == 3

\* The most pieces in a free text handed to the sanitizer.
MaxPieces == 4

\* The decimal digits of n, for n < 100.
Numeral(n) ==
    LET d == [k \in 0..9 |-> <<"0", "1", "2", "3", "4", "5", "6", "7", "8", "9">>[k + 1]]
    IN  IF n < 10 THEN <<d[n]>> ELSE <<d[n \div 10], d[n % 10]>>

\* The text of question i of a block.
QuestionText(i) == <<"Q">> \o Numeral(i)

\* One day of a plan: whether it names a topic, the link it carries and how
\* many questions it lists.
BlockShapes ==
    [topic : BOOLEAN, link : {"none", "plain", "placeholder"},
     nq : {2, MaxQuestions}]

\* A plan: its days, whether each part stands on its own line or all run on
\* in one paragraph, and the separator after "Day N".
Plans ==
    [layout : {"lines", "inline"}, sep : {":", ""},
     blocks : UNION {[1..n -> BlockShapes] : n \in 1..MaxBlocks}]

\* The parts of day k, in order: header, topic, link, label, questions.
BlockParts(b, k, sep) ==
    <<(<<"Day", " ">> \o Numeral(k) \o (IF sep = "" THEN <<>> ELSE <<sep>>)
          \o <<" ", "I">>)>>
    \o (IF b.topic THEN <<(<<"Topic", ":", " ", "X">>)>> ELSE <<>>)
    \o (CASE b.link = "none" -> <<>>
          [] b.link = "plain" -> <<(<<"https://", "x">>)>>
          [] b.link = "placeholder" ->
                <<(<<"YouTube", " ", "Link", ":", " ", "https://", "x", "VIDEO_ID_HERE">>)>>)
    \o <<(<<"Practice", " ", "Questions", " ", "(", "1", "0", ")">>)>>
    \o [i \in 1..b.nq |-> Numeral(i) \o <<".", " ">> \o QuestionText(i)]

\* parts joined by the token glue.
RECURSIVE JoinWith(_, _)
JoinWith(parts, glue) ==
    IF parts = <<>> THEN <<>>
    ELSE IF Len(parts) = 1 THEN parts[1]
    ELSE parts[1] \o <<glue>> \o JoinWith(Tail(parts), glue)

\* The text of a plan.
Render(p) ==
    LET glue == IF p.layout = "lines" THEN "\n" ELSE " "
    IN  JoinWith([k \in 1..Len(p.blocks) |->
                     JoinWith(BlockParts(p.blocks[k], k, p.sep), glue)], glue)

\* A text that was written from no plan.
NoPlan == [layout |-> "free", sep |-> "", blocks |-> <<>>]

\* Pieces of free text for the extractor: headers with and without a
\* separator, at a line's start or not, labels, links and white space.
Chunks ==
    {<<"Day", " ", "1", ":">>, <<"day", " ", "2", " ", "x">>, <<"x">>, <<" ">>,
     <<"\n">>, <<"Topic", ":", " ", "X">>, <<"https://", "x">>,
     <<"YouTube", " ", "Link", ":", " ", "https://", "VIDEO_ID_HERE">>}

\* Pieces of free text for the sanitizer: backquotes, a tool error, a trace-like
\* line, a day header, plain text and line breaks.
Pieces ==
    {<<Backquote, Backquote>>, <<"Error:", " ", "ToolException(", "x", ")">>,
     <<"Thought", "f", "u", "l">>, <<"Day", " ", "1", ":", " ", "x">>, <<"x">>,
     <<"\n">>}

\* Day blocks that carry a bare URL and, after it, a labelled one, under a
\* header with a separator and under one without.
TwoLinkTexts ==
    {<<"Day", " ", "1">> \o sep \o <<" ", "I", "\n", "Topic", ":", " ", "X", "\n",
       "https://", "x", "\n",
       "YouTube", " ", "Link", ":", " ", "https://", "y">> :
         sep \in {<<":">>, <<>>}}

\* The concatenation of a sequence of texts.
RECURSIVE Concat(_)
Concat(ts) == IF ts = <<>> THEN <<>> ELSE ts[1] \o Concat(Tail(ts))

\* The free texts of up to n pieces from S.
FreeTexts(S, n) == {Concat(c) : c \in UNION {[1..m -> S] : m \in 0..n}}

----------------------------------------------------------------------------
(* The text pipeline's runs.                                               *)

InitText ==
    /\ dirExists = FALSE
    /\ hashOf = [g \in Goals |-> Min(HashVals)]
    /\ progressFiles = [k \in HashVals |-> Absent]
    /\ historyFile = Absent
    /\ trace = <<>>
    /\ runs = <<>>
    /\ items = <<>>
    /\ pc = "input"
    /\ writers = IdleWriters
    /\ session = IdleSession

InitExtract ==
    /\ InitText
    /\ \/ plan \in Plans /\ doc = Render(plan)
       \/ plan = NoPlan /\ doc \in FreeTexts(Chunks, MaxChunks) \cup TwoLinkTexts

\* app.py:159: day_items = extract_days_and_questions(clean_text).
Extract ==
    /\ pc = "input"
    /\ items' = extract_days_and_questions(doc)
    /\ pc' = "done"
    /\ UNCHANGED <<storeVars, doc, plan, runs, appVars>>

NextExtract == Extract

SpecExtract == InitExtract /\ [][NextExtract]_vars

InitSanitize ==
    /\ InitText
    /\ plan = NoPlan
    /\ doc \in FreeTexts(Pieces, MaxPieces)

\* app.py:152: clean_text = sanitize_learning_path_text(full_text); applied
\* again to its own output for the second run.
Sanitize ==
    /\ pc = "input"
    /\ runs' = Append(runs, sanitize_learning_path_text(
                                IF runs = <<>> THEN doc ELSE runs[Len(runs)]))
    /\ pc' = IF Len(runs) = 0 THEN "input" ELSE "done"
    /\ UNCHANGED <<storeVars, doc, plan, items, appVars>>

NextSanitize == Sanitize

SpecSanitize == InitSanitize /\ [][NextSanitize]_vars

----------------------------------------------------------------------------
(* Claims about the extractor.                                             *)

\* w occurs in t as a run of tokens.
ContainsSeq(t, w) ==
    \E i \in 1..(Len(t) - Len(w) + 1) : SubSeq(t, i, i + Len(w) - 1) = w

\* The questions written under the label of a block with n of them.
QuestionTexts(n) == [i \in 1..n |-> QuestionText(i)]

\* The plan is in the form of one part per line with "Day N:" headers, every
\* day naming its topic, carrying no link and listing no more questions than
\* the extractor keeps.
LineAnchoredPlan ==
    /\ plan.layout = "lines"
    /\ plan.sep = ":"
    /\ \A k \in DOMAIN plan.blocks :
          /\ plan.blocks[k].topic
          /\ plan.blocks[k].link = "none"
          /\ plan.blocks[k].nq <= QuestionCap

\* C6: for a text of line-anchored day blocks "Day N: <title>" / "Topic: <t>"
\* / "Practice Questions (10)" / numbered questions, the extractor returns one
\* item per block, in order, whose day_title contains "Day N", whose topic is
\* <t> and whose questions are the numbered lines' texts in order.
C6_LineAnchoredBlocksExtracted ==
    (pc = "done" /\ LineAnchoredPlan) =>
        /\ Len(items) = Len(plan.blocks)
        /\ \A k \in DOMAIN items :
              /\ ContainsSeq(items[k].day_title, <<"Day", " ">> \o Numeral(k))
              /\ items[k].topic = <<"X">>
              /\ items[k].questions = QuestionTexts(plan.blocks[k].nq)

\* A day header "Day <int>" followed by ":" or "-" occurs somewhere in t.
HasDayHeader(t) == \E i \in 1..Len(t) : HeaderEnd(t, i) # 0

\* C7: whenever the primary parser finds no day block in a text in which a
\* day header occurs anywhere, at a line's start or not, the extractor still
\* returns at least one item.
C7_FallbackRecoversAnItem ==
    (pc = "done" /\ Primary(doc) = <<>> /\ HasDayHeader(doc)) =>
        Len(items) >= 1

\* The first n entries of a sequence, all of them when it has fewer.
FirstN(q, n) == IF Len(q) <= n THEN q ELSE SubSeq(q, 1, n)

\* C8: every item returned, by the primary or the fallback parser, has at most
\* 10 questions, and they are the first min(n, 10) of the n lines written
\* under the block's "Practice Questions (10)" label, marker stripped, in
\* their order.
C8_QuestionsCapped ==
    pc = "done" =>
        /\ \A k \in DOMAIN items : Len(items[k].questions) <= QuestionCap
        /\ plan.layout = "lines" =>
              /\ Len(items) = Len(plan.blocks)
              /\ \A k \in DOMAIN items :
                    items[k].questions =
                        FirstN(QuestionTexts(plan.blocks[k].nq), QuestionCap)

\* A block listing more questions than the cap was extracted by the fallback
\* parser next to a block that lists fewer, and exactly the cap was kept.
C8_Witness ==
    /\ pc = "done"
    /\ plan.layout = "lines"
    /\ plan.sep = ""
    /\ Len(items) = 2
    /\ plan.blocks[1].nq > QuestionCap
    /\ Len(items[1].questions) = QuestionCap
    /\ items[1].questions[QuestionCap] = QuestionText(QuestionCap)
    /\ Len(items[2].questions) = plan.blocks[2].nq
    /\ plan.blocks[2].nq < QuestionCap

\* The plan with every placeholder link left out.
WithoutPlaceholders(p) ==
    [p EXCEPT !.blocks =
        [k \in DOMAIN p.blocks |->
            IF p.blocks[k].link = "placeholder"
            THEN [p.blocks[k] EXCEPT !.link = "none"] ELSE p.blocks[k]]]

\* C9: every item's video_link is non-empty and never holds the placeholder
\* VIDEO_ID_HERE; a block whose link holds the placeholder gets the link it
\* would get with no URL at all, the search URL of its topic or the generic
\* URL.
C9_PlaceholderNeverSurfaces ==
    pc = "done" =>
        /\ \A k \in DOMAIN items :
              /\ items[k].video_link # <<>>
              /\ ~HasPlaceholder(items[k].video_link)
        /\ plan.layout # "free" =>
              LET bare == extract_days_and_questions(
                              Render(WithoutPlaceholders(plan)))
              IN  /\ Len(bare) = Len(items)
                  /\ \A k \in DOMAIN items :
                        /\ items[k].video_link = bare[k].video_link
                        /\ (k \in DOMAIN plan.blocks
                              /\ plan.blocks[k].link = "placeholder") =>
                              items[k].video_link \in
                                  {SearchUrl(items[k].topic), GenericUrl}

----------------------------------------------------------------------------
(* Claims about the sanitizer.                                             *)

\* A block fenced by triple backquotes occurs in t.
HasFencedBlock(t) ==
    \E i \in 1..Len(t) : IsFence(t, i) /\ FenceClose(t, i) # 0

\* No more than two lines stand before the first day marker of t.
StartsAtFirstDay(t) ==
    LET start == FirstDayMarker(t)
    IN  start # 0 => Len(SplitLines(Strip(Slice(t, 1, start - 1)))) <= 2

\* The sanitizer's output invariant: no trace line, no fenced block, no bare
\* JSON line, and the text starts at or just before its first day marker.
SanitizedText(t) ==
    /\ \A k \in DOMAIN SplitLines(t) :
          LET s == Strip(SplitLines(t)[k])
          IN  ~IsTraceLine(s) /\ ~IsBareJson(s)
    /\ ~HasFencedBlock(t)
    /\ StartsAtFirstDay(t)

\* C10: for every text x that satisfies the sanitizer's output invariant,
\* sanitizing the sanitized x gives the sanitized x again.
C10_SanitizeIdempotent ==
    (pc = "done" /\ SanitizedText(doc)) => runs[2] = runs[1]

----------------------------------------------------------------------------
(* Two sessions inside save_history_record at the same time. The function  *)
(* takes no lock: between its load_history() and its open(..., "w") the    *)
(* other session may run.                                                  *)

\* The logs the history file may hold when the two calls start.
StartLogs ==
    UNION {[1..n -> HistoryRecords] : n \in 0..(MaxHistory - 2)}

InitWriters ==
    /\ dirExists \in BOOLEAN
    /\ hashOf = [g \in Goals |-> Min(HashVals)]
    /\ progressFiles = [k \in HashVals |-> Absent]
    /\ historyFile \in {Absent, Corrupt} \cup {JsonDump(q) : q \in StartLogs}
    /\ trace = <<>>
    /\ doc = <<>>
    /\ plan = NoPlan
    /\ runs = <<>>
    /\ items = <<>>
    /\ pc = "store"
    /\ writers = IdleWriters
    /\ session = IdleSession

\* The session other than w.
Other(w) == CHOOSE v \in Sessions : v # w

\* utils.py:382-384 in session w: _ensure_data_dir(), history =
\* load_history(), history.append(record). overlap notes whether the other
\* session stood between its own load and its write at that moment.
WriterLoad(w) ==
    \E r \in HistoryRecords, f \in FaultChoices({"makedirs", "read"}) :
        LET d == ensure_data_dir(dirExists, f)
            l == load_history(d.dir, historyFile, f)
        IN  /\ writers[w].pc = "idle"
            /\ dirExists' = d.dir
            /\ writers' = [writers EXCEPT ![w] =
                   IF d.raised
                   THEN [@ EXCEPT !.pc = "raised", !.record = Value(r),
                                  !.faults = d.faults]
                   ELSE [pc |-> "loaded", record |-> Value(r),
                         history |-> append(l.ret.val, r),
                         before |-> l.ret.val,
                         overlap |-> writers[Other(w)].pc = "loaded",
                         faults |-> l.faults]]
            /\ UNCHANGED <<hashOf, progressFiles, historyFile, trace, textVars,
                           session>>

\* A write that appends to what the file holds at the time of the write, as
\* an atomic append would.
WriterWriteMerging(w) ==
    \E f \in FaultChoices({"open_w", "dump"}) :
        LET res == write_history(historyFile,
                       append(Stored(historyFile), writers[w].record.val), f)
        IN  /\ writers[w].pc = "loaded"
            /\ historyFile' = res.file
            /\ writers' = [writers EXCEPT ![w] =
                   [@ EXCEPT !.pc = IF res.raised THEN "raised" ELSE "returned",
                             !.faults = @ \cup res.faults]]
            /\ UNCHANGED <<dirExists, hashOf, progressFiles, trace, textVars,
                           session>>

\* utils.py:385-386 in session w: open(HISTORY_PATH, "w") and
\* json.dump(history, f) of the list the session built from its own load.
WriterWrite(w) ==
    \E f \in FaultChoices({"open_w", "dump"}) :
        LET res == write_history(historyFile, writers[w].history, f)
        IN  /\ writers[w].pc = "loaded"
            /\ historyFile' = res.file
            /\ writers' = [writers EXCEPT ![w] =
                   [@ EXCEPT !.pc = IF res.raised THEN "raised" ELSE "returned",
                             !.faults = @ \cup res.faults]]
            /\ UNCHANGED <<dirExists, hashOf, progressFiles, trace, textVars,
                           session>>

NextWriters ==
    \E w \in Sessions :
        \/ WriterLoad(w)
        \/ WriterWrite(w)

SpecWriters == InitWriters /\ [][NextWriters]_vars

\* Both calls have returned and neither met a storage failure.
BothReturned ==
    \A w \in Sessions : writers[w].pc = "returned" /\ writers[w].faults = {}

\* C11: of two save_history_record calls that both return, the one that
\* writes last decides the log. When the calls overlapped (each loaded before
\* the other wrote) the log holds what both loaded plus one of the two
\* records only: an append is lost. When one call ended before the other
\* began, the log holds what the first loaded plus both records, in the order
\* of the calls.
C11_LastWriterWins ==
    BothReturned =>
        IF \E w \in Sessions : writers[w].overlap
        THEN /\ \A w \in Sessions : writers[w].before = writers[Other(w)].before
             /\ \E w \in Sessions :
                   Stored(historyFile)
                       = writers[w].before \o <<writers[w].record.val>>
        ELSE \E w \in Sessions :
                /\ writers[Other(w)].before
                       = writers[w].before \o <<writers[w].record.val>>
                /\ Stored(historyFile)
                       = writers[w].before \o <<writers[w].record.val,
                                                 writers[Other(w)].record.val>>

\* C11's case: both calls returned, and the log that held one record holds
\* that record and the record of one session; the other session's record is
\* nowhere in it.
C11_LostAppend ==
    /\ BothReturned
    /\ writers["s1"].before # <<>>
    /\ writers["s1"].record # writers["s2"].record
    /\ Stored(historyFile) = writers["s1"].before \o <<writers["s2"].record.val>>
    /\ \A k \in DOMAIN Stored(historyFile) :
          Stored(historyFile)[k] # writers["s1"].record.val

----------------------------------------------------------------------------
(* The Generate handler of app.py (lines 115-214), one step per call that  *)
(* can end it, run by one session.                                         *)

\* The secondary tool chosen in the sidebar.
Tools == {"Drive", "Notion"}

\* The messages run_agent_sync hands to progress_callback, in order (their
\* trailing check marks left out).
AgentMessages(tool) ==
    <<"Setting up agent with tools...",
      IF tool = "Drive" THEN "Added Google Drive integration..."
      ELSE "Added Notion integration...",
      "Initializing MCP client...",
      "Getting available tools...",
      "Creating AI agent...",
      "Setup complete! Starting to generate learning path...",
      "Generating your learning path...",
      "Learning path generation complete!">>

\* The phrases update_progress looks for that occur in message.
Phrases(message) ==
    CASE message = "Setting up agent with tools..." ->
             {"Setting up agent with tools"}
      [] message = "Added Google Drive integration..." ->
             {"Added Google Drive integration"}
      [] message = "Added Notion integration..." ->
             {"Added Notion integration"}
      [] message = "Creating AI agent..." -> {"Creating AI agent"}
      [] message = "Generating your learning path..." ->
             {"Generating your learning path"}
      [] message = "Learning path generation complete!" ->
             {"Learning path generation complete"}
      [] OTHER -> {}

\* update_progress without line 90: the flag is left as it is when the agent
\* reports completion.
update_progress_keeping_flag(ss, message) ==
    LET p == Phrases(message)
        s1 == [ss EXCEPT !.current_step = message]
    IN  IF "Setting up agent with tools" \in p
        THEN [s1 EXCEPT !.progress = 1, !.last_section = "Setup"]
        ELSE IF "Added Google Drive integration" \in p
                \/ "Added Notion integration" \in p
        THEN [s1 EXCEPT !.progress = 2, !.last_section = "Integration"]
        ELSE IF "Creating AI agent" \in p
        THEN [s1 EXCEPT !.progress = 3, !.last_section = "Setup"]
        ELSE IF "Generating your learning path" \in p
        THEN [s1 EXCEPT !.progress = 5, !.last_section = "Generation"]
        ELSE IF "Learning path generation complete" \in p
        THEN [s1 EXCEPT !.progress = 10, !.last_section = "Complete"]
        ELSE [s1 EXCEPT !.last_section =
                  IF ss.last_section # "" THEN ss.last_section ELSE "Progress"]

\* update_progress(message), lines 72-94: what it leaves in
\* st.session_state (progress in tenths).
update_progress(ss, message) ==
    LET p == Phrases(message)
        s1 == [ss EXCEPT !.current_step = message]
    IN  IF "Setting up agent with tools" \in p
        THEN [s1 EXCEPT !.progress = 1, !.last_section = "Setup"]
        ELSE IF "Added Google Drive integration" \in p
                \/ "Added Notion integration" \in p
        THEN [s1 EXCEPT !.progress = 2, !.last_section = "Integration"]
        ELSE IF "Creating AI agent" \in p
        THEN [s1 EXCEPT !.progress = 3, !.last_section = "Setup"]
        ELSE IF "Generating your learning path" \in p
        THEN [s1 EXCEPT !.progress = 5, !.last_section = "Generation"]
        ELSE IF "Learning path generation complete" \in p
        THEN [s1 EXCEPT !.progress = 10, !.last_section = "Complete",
                        !.is_generating = FALSE]
        ELSE [s1 EXCEPT !.last_section =
                  IF ss.last_section # "" THEN ss.last_section ELSE "Progress"]

\* What the agent may return as concatenate_messages(result): nothing, a
\* trace only, text with no day in it, a plan of one day, a plan of two.
AgentTexts ==
    {<<>>,
     <<"Thought", ":", " ", "x">>,
     <<"x">>,
     <<"Day", " ", "1", ":", " ", "I", " ", "Topic", ":", " ", "X">>,
     <<"Day", " ", "1", ":", " ", "I", "\n", "Topic", ":", " ", "X", "\n",
       "Day", " ", "2", ":", " ", "I", "\n", "Topic", ":", " ", "x">>}

\* day_key = f"day_{idx}".
DayKey(idx) == <<"day_1", "day_2">>[idx]

\* progress_data.get(day_key, {}).get("completed", False).
IsCompleted(progress_data, day_key) ==
    IF day_key \in DOMAIN progress_data THEN progress_data[day_key].completed
    ELSE FALSE

\* The assignment of lines 178-182 dropping the entries of the other days.
SetEntryAlone(progress_data, day_key, entry) ==
    [k \in {day_key} |-> entry]

\* progress_data[day_key] = {...}, lines 178-182.
SetEntry(progress_data, day_key, entry) ==
    [k \in DOMAIN progress_data \cup {day_key} |->
        IF k = day_key THEN entry ELSE progress_data[k]]

\* A guard that lets the empty text through to the day plan and the history.
after_sanitize_always(clean_text) == "plan"

\* if clean_text: ... else: ..., lines 153 and 203.
after_sanitize(clean_text) == IF clean_text # <<>> THEN "plan" ELSE "empty"

\* The record the handler hands to save_history_record, lines 194-201.
HistoryEntry(user_goal, tool, clean_text) ==
    [goal |-> user_goal, tool |-> tool, content |-> clean_text]

\* What the files hold, kept when the button is clicked to compare with
\* later.
Snapshot == [dir |-> dirExists, history |-> historyFile, files |-> progressFiles]

\* Progress records earlier runs of the handler may have left: day 1 marked,
\* or days 1 and 2.
StartRecords ==
    LET e1 == [completed |-> TRUE, title |-> <<"Day">>, topic |-> <<"X">>]
        e2 == [completed |-> TRUE, title |-> <<"Day">>, topic |-> <<"x">>]
    IN  {[k \in {"day_1"} |-> e1],
         [k \in {"day_1", "day_2"} |-> IF k = "day_1" THEN e1 ELSE e2]}

\* The history log earlier runs may have left: one record.
StartHistory == {<<HistoryEntry("learn go", "Drive", <<"x">>)>>}

\* A script run starts with st.session_state as lines 10-17 leave it and
\* with the files as earlier runs and the file system left them.
InitGenerate ==
    /\ hashOf \in [Goals -> HashVals]
    /\ progressFiles \in [HashVals ->
           {Absent, Corrupt} \cup {JsonDump(r) : r \in StartRecords}]
    /\ historyFile \in {Absent, Corrupt} \cup {JsonDump(q) : q \in StartHistory}
    /\ dirExists = (historyFile # Absent \/ \E k \in HashVals : progressFiles[k] # Absent)
    /\ trace = <<>>
    /\ doc = <<>>
    /\ plan = NoPlan
    /\ runs = <<>>
    /\ items = <<>>
    /\ pc = "app"
    /\ writers = IdleWriters
    /\ session = IdleSession

\* Lines 115-138: the button is enabled only while is_generating is False;
\* a click with an invalid sidebar or goal shows a message and ends the run,
\* a valid one sets the flag and resets the progress display.
Click ==
    /\ session.pc = "idle"
    /\ ~session.is_generating
    /\ \E valid \in BOOLEAN, g \in Goals, t \in Tools :
          session' =
              IF valid
              THEN [session EXCEPT !.pc = "agent", !.is_generating = TRUE,
                       !.current_step = "", !.progress = 0,
                       !.last_section = "", !.user_goal = g, !.tool = t,
                       !.step = 1, !.before = Value(Snapshot)]
              ELSE [session EXCEPT !.pc = "end", !.outcome = "invalid",
                       !.before = Value(Snapshot)]
    /\ UNCHANGED <<storeVars, textVars, writers>>

\* run_agent_sync calls progress_callback=update_progress with its next
\* message; the display calls of lines 97-110 may raise after
\* st.session_state was updated.
Callback ==
    /\ session.pc = "agent"
    /\ session.step <= Len(AgentMessages(session.tool))
    /\ \E raises \in BOOLEAN :
          LET ss == update_progress(session,
                        AgentMessages(session.tool)[session.step])
          IN  session' =
                  IF raises
                  THEN [ss EXCEPT !.pc = "except", !.outcome = "agent_raised"]
                  ELSE [ss EXCEPT !.step = @ + 1]
    /\ UNCHANGED <<storeVars, textVars, writers>>

\* run_agent_sync raises (utils.py:89-91, 129-131, 136-139): the set-up or
\* the agent failed.
AgentRaise ==
    /\ session.pc = "agent"
    /\ session' = [session EXCEPT !.pc = "except", !.outcome = "agent_raised"]
    /\ UNCHANGED <<storeVars, textVars, writers>>

\* Lines 140-159 and 203-205: the agent returned after its last message;
\* the text is sanitized, an empty one ends the run with the flag cleared,
\* any other is displayed and its days extracted.
AgentReturn ==
    /\ session.pc = "agent"
    /\ session.step > Len(AgentMessages(session.tool))
    /\ \E full_text \in AgentTexts :
          LET clean_text == sanitize_learning_path_text(full_text)
          IN  /\ doc' = full_text
              /\ runs' = <<clean_text>>
              /\ IF after_sanitize(clean_text) = "empty"
                 THEN /\ items' = <<>>
                      /\ session' = [session EXCEPT !.pc = "end",
                                        !.is_generating = FALSE,
                                        !.outcome = "empty"]
                 ELSE /\ items' = extract_days_and_questions(clean_text)
                      /\ session' = [session EXCEPT !.pc = "plan"]
    /\ UNCHANGED <<storeVars, plan, pc, writers>>

\* Lines 160-163: with day items, progress_data = load_progress(user_goal).
LoadPlan ==
    /\ session.pc = "plan"
    /\ \/ /\ items = <<>>
          /\ session' = [session EXCEPT !.pc = "history"]
          /\ UNCHANGED dirExists
       \/ /\ items # <<>>
          /\ \E f \in FaultChoices({"makedirs", "read"}) :
                LET res == load_progress(dirExists, progressFiles, hashOf,
                                         session.user_goal, f)
                IN  /\ dirExists' = res.dir
                    /\ session' =
                          IF res.raised
                          THEN [session EXCEPT !.pc = "except",
                                   !.outcome = "storage_raised",
                                   !.faults = @ \cup res.faults]
                          ELSE [session EXCEPT !.pc = "days", !.idx = 1,
                                   !.progress_data = res.ret.val,
                                   !.faults = @ \cup res.faults]
    /\ UNCHANGED <<hashOf, progressFiles, historyFile, trace, textVars, writers>>

\* Lines 165-183, one turn of the loop: the checkbox of day idx; when its
\* value differs from the stored one the entry is set and the record saved.
Checkbox ==
    /\ session.pc = "days"
    /\ \E completed \in BOOLEAN,
          f \in FaultChoices({"makedirs", "open_w", "dump"}) :
          LET day_key == DayKey(session.idx)
              item == items[session.idx]
              is_completed == IsCompleted(session.progress_data, day_key)
              entry == [completed |-> completed, title |-> item.day_title,
                        topic |-> item.topic]
              data == SetEntry(session.progress_data, day_key, entry)
              res == save_progress(dirExists, progressFiles, hashOf,
                                   session.user_goal, data, f)
              next == IF session.idx = Len(items) THEN "history" ELSE "days"
          IN  IF completed = is_completed
              THEN /\ f = {}
                   /\ session' = [session EXCEPT !.pc = next, !.idx = @ + 1]
                   /\ UNCHANGED <<dirExists, progressFiles>>
              ELSE /\ dirExists' = res.dir
                   /\ progressFiles' = res.files
                   /\ session' =
                         IF res.raised
                         THEN [session EXCEPT !.pc = "except",
                                  !.outcome = "storage_raised",
                                  !.progress_data = data,
                                  !.faults = @ \cup res.faults]
                         ELSE [session EXCEPT !.pc = next, !.idx = @ + 1,
                                  !.progress_data = data,
                                  !.toggled = @ \cup {session.idx},
                                  !.faults = @ \cup res.faults]
    /\ UNCHANGED <<hashOf, historyFile, trace, textVars, writers>>

\* Lines 194-201: save_history_record({...}).
SaveHistory ==
    /\ session.pc = "history"
    /\ \E f \in FaultChoices(Faults) :
          LET res == save_history_record(dirExists, historyFile,
                         HistoryEntry(session.user_goal, session.tool, runs[1]),
                         f)
          IN  /\ dirExists' = res.dir
              /\ historyFile' = res.file
              /\ session' =
                    IF res.raised
                    THEN [session EXCEPT !.pc = "except",
                             !.outcome = "storage_raised",
                             !.faults = @ \cup res.faults]
                    ELSE [session EXCEPT !.pc = "end", !.outcome = "generated",
                             !.faults = @ \cup res.faults]
    /\ UNCHANGED <<hashOf, progressFiles, trace, textVars, writers>>

\* Lines 206-214: except Exception: the error is shown and the flag cleared.
Except ==
    /\ session.pc = "except"
    /\ session' = [session EXCEPT !.pc = "end", !.is_generating = FALSE]
    /\ UNCHANGED <<storeVars, textVars, writers>>

NextGenerate ==
    \/ Click
    \/ Callback
    \/ AgentRaise
    \/ AgentReturn
    \/ LoadPlan
    \/ Checkbox
    \/ SaveHistory
    \/ Except

SpecGenerate == InitGenerate /\ [][NextGenerate]_vars

----------------------------------------------------------------------------
(* Claims about the Generate handler.                                      *)

\* The progress record a load_progress that meets no failure would return.
StoredRecord(file) == IF file.kind = "json" THEN file.val ELSE EmptyRecord

\* The keys of the days whose checkbox was toggled in this run.
ToggledKeys == {DayKey(i) : i \in session.toggled}

\* C12: with a single writer and no storage failure, toggling the checkbox of
\* day i for goal g sets the entry day_i of g's persisted record to the new
\* checkbox value with that day's title and topic, and changes nothing else:
\* every other day entry stored for g is as it was, and so is every other
\* progress file.
C12_ToggleChangesOneEntry ==
    (session.before # NoValue /\ session.user_goal \in Goals
        /\ session.faults = {}) =>
        LET k == hashOf[session.user_goal]
            old == StoredRecord(session.before.val.files[k])
            new == StoredRecord(progressFiles[k])
        IN  /\ \A h \in HashVals \ {k} :
                  progressFiles[h] = session.before.val.files[h]
            /\ session.toggled = {} =>
                  progressFiles[k] = session.before.val.files[k]
            /\ DOMAIN new = DOMAIN old \cup ToggledKeys
            /\ \A d \in DOMAIN old \ ToggledKeys : new[d] = old[d]
            /\ \A i \in session.toggled :
                  new[DayKey(i)] =
                      [completed |-> ~IsCompleted(old, DayKey(i)),
                       title |-> items[i].day_title,
                       topic |-> items[i].topic]

\* C12's case: the record of the goal held day 1, the checkbox of day 2 alone
\* was toggled, and another goal has a record in a file of its own.
C12_Witness ==
    /\ session.pc = "end"
    /\ session.faults = {}
    /\ session.toggled = {2}
    /\ DOMAIN StoredRecord(session.before.val.files[hashOf[session.user_goal]])
           = {"day_1"}
    /\ \E g \in Goals :
          /\ hashOf[g] # hashOf[session.user_goal]
          /\ progressFiles[hashOf[g]].kind = "json"

\* The run's agent call returned (the text it gave was sanitized).
AgentReturned == runs # <<>>

\* C13: a run of the handler whose agent call returns a text that is not
\* empty once sanitized, and that meets no storage failure, appends exactly
\* one record to the history log, with day items or without; a run whose
\* agent call raises or whose sanitized text is empty (or whose input is
\* rejected) leaves the history log, every progress file and the data
\* directory exactly as they were.
C13_HistoryWrittenOnceOrNever ==
    session.pc = "end" =>
        IF AgentReturned /\ runs[1] # <<>>
        THEN session.faults = {} =>
                Stored(historyFile)
                    = Stored(session.before.val.history)
                        \o <<HistoryEntry(session.user_goal, session.tool, runs[1])>>
        ELSE /\ historyFile = session.before.val.history
             /\ progressFiles = session.before.val.files
             /\ dirExists = session.before.val.dir

\* C13's case: the agent returned a text with no day in it, no day item was
\* extracted, and the log that held one record holds two.
C13_Witness ==
    /\ session.pc = "end"
    /\ AgentReturned
    /\ runs[1] # <<>>
    /\ items = <<>>
    /\ session.faults = {}
    /\ Len(Stored(session.before.val.history)) = 1
    /\ Len(Stored(historyFile)) = 2

\* C17: at the end of every run of the Generate handler, whether the input
\* was rejected, the agent or the progress callback raised, the sanitized
\* text was empty, a storage call raised or the run succeeded,
\* st.session_state.is_generating is False, so the button is enabled again.
C17_FlagClearedAtEnd ==
    session.pc = "end" => ~session.is_generating

\* C17's case: a run that set the flag ended in full success, with the
\* history record written; no line after the agent call clears the flag on
\* that path, the agent's last progress message did.
C17_Witness ==
    /\ session.pc = "end"
    /\ session.outcome = "generated"
    /\ session.current_step = "Learning path generation complete!"
    /\ ~session.is_generating

----------------------------------------------------------------------------
(* Claims about the sanitizer's line filter.                               *)

\* A line that begins with Thought, Action or Observation, in any case,
\* immediately followed by a colon.
HasTraceLabel(s) == IsTraceLine(s) /\ Tok(s, 2) = ":"

\* The line filter as the claim has it: a non-blank line goes when it has a
\* trace label or is a bare JSON object, every other line stays as it is and
\* a blank line stays as a blank line.
RECURSIVE LabelFilter(_)
LabelFilter(lines) ==
    IF lines = <<>> THEN <<>>
    ELSE LET s == Strip(lines[1])
             rest == LabelFilter(Tail(lines))
         IN  IF s = <<>> THEN <<(<<>>)>> \o rest
             ELSE IF HasTraceLabel(s) \/ IsBareJson(s) THEN rest
             ELSE <<lines[1]>> \o rest

\* The text the three removals of lines 170-175 hand to the line filter.
BeforeFilter(text) ==
    RemoveDataJson(RemoveToolExceptions(RemoveFences(text, 1), 1), 1)

\* C14: the line filter drops a non-blank line if and only if it begins with
\* Thought, Action or Observation immediately followed by a colon or is a
\* bare JSON object; a line such as "Thoughtful" is kept as it is. So the
\* sanitizer returns what it would return with that filter.
C14_FilterDropsLabelledLinesOnly ==
    (runs # <<>> /\ doc # <<>>) =>
        /\ FilterLines(SplitLines(BeforeFilter(doc)))
               = LabelFilter(SplitLines(BeforeFilter(doc)))
        /\ runs[1] = KeepFromFirstDay(Strip(JoinLines(
                         LabelFilter(SplitLines(BeforeFilter(doc))))))

----------------------------------------------------------------------------
(* Claims about the extractor's two parsers.                               *)

\* "Day", white space and a number occur nowhere in t: no parser finds a
\* header.
NoDayNumber(t) ==
    \A i \in 1..Len(t) :
        ~(/\ Fold(t[i]) = "Day"
          /\ Skip(t, i + 1, Spaces) > i + 1
          /\ Tok(t, Skip(t, i + 1, Spaces)) \in Digits)

\* C15: the extractor is a strict two-stage pipeline: when the primary
\* parser produces an item, exactly its items are returned; the fallback
\* parser's items are returned only when the primary parser produced none;
\* and a text with no header gives the empty sequence.
C15_TwoStagePipeline ==
    pc = "done" =>
        LET primary == Primary(doc)
        IN  /\ primary # <<>> => items = primary
            /\ primary = <<>> => items = Fallback(doc)
            /\ NoDayNumber(doc) => items = <<>>

\* C15's case: both parsers find items in the text and theirs differ; the
\* primary parser's were returned.
C15_Witness ==
    /\ pc = "done"
    /\ Primary(doc) # <<>>
    /\ Fallback(doc) # <<>>
    /\ Fallback(doc) # Primary(doc)
    /\ items = Primary(doc)
    /\ Len(items) = 2

----------------------------------------------------------------------------
(* Claims about the fallback parser's field rules.                         *)

\* The primary parser's field rules (lines 223-262) on a block: on what
\* follows its header when the title pattern matches, on the whole block
\* otherwise.
PrimaryFields(block) ==
    LET rest == IF HeaderEnd(block, 1) # 0 THEN Rest(block) ELSE block
        topic == TopicOf(rest)
    IN  [topic |-> topic,
         video_link |-> ResolveLink(PrimaryLink(rest), topic),
         questions |-> QuestionsOf(rest)]

\* C16: for every day block the fallback parser cuts, it computes the topic,
\* video_link and questions that the primary parser's field rules compute
\* for that block (only day_title is derived differently); on both paths a
\* URL that follows a "YouTube Link" label is preferred to a bare URL
\* earlier in the block.
C16_FallbackFieldsAsPrimary ==
    (pc = "done" /\ Primary(doc) = <<>>) =>
        \A k \in DOMAIN items :
            LET p == PrimaryFields(Strip(FallbackBlocks(doc)[k]))
            IN  /\ items[k].topic = p.topic
                /\ items[k].video_link = p.video_link
                /\ items[k].questions = p.questions

====
